---- MODULE Spec2Model ----
(***************************************************************************)
(* The streaming narration pipeline of the adaptive reader                 *)
(* (AdaptiveReader in src/components/ComicMode.tsx, lines 148-362): the    *)
(* chunker, stopAudio, handlePlayAudio with its fetchWorker and consumer   *)
(* loop, the shared audio device and the timers and speech requests the    *)
(* loops wait on; decodeAudioData and the shared audio context of the     *)
(* speech service (src/unnamed/part_004, lines 1-205); and the session     *)
(* around the reader: the navigation state of App (src/unnamed/part_000),  *)
(* the upload screen (src/components/UploadModule.tsx, lines 412-583) and  *)
(* the playback handlers of the comic, explain and video screens.          *)
(*                                                                         *)
(* Time is counted in units of 50 ms.  Chunk indices are 0-based as in the *)
(* code; chunksRef[i + 1] is the code's chunksRef.current[i].  One action  *)
(* is one turn of the event loop: a handler or a continuation runs from    *)
(* the point it was resumed to the next await that really suspends it.     *)
(***************************************************************************)
EXTENDS Integers, Sequences, FiniteSets, TLC

\* ---------------------------------------------------------------- bounds
MaxChunks == 3          \* sentences of the documents tried, besides LongDoc
MaxRuns == 2            \* invocations of handlePlayAudio that start a run
MaxTime == 2            \* the device clock is read up to this value
MaxClock == 8           \* the same for the specification that follows the clock
MaxTextLen == 4         \* characters of the texts handed to the chunker on its own
MaxFailures == 1        \* speech requests that fail
MaxRateChanges == 1     \* moves of the speed slider
BufferDuration == 2     \* length of one synthesized buffer, in time units
MaxAlloc == 4           \* bytes of the largest allocation handed to the decoder
MaxUploads == 2         \* files chosen on the upload screen
MaxSpeaks == 2          \* playback requests made on the screens
MaxSources == 3         \* sources started on the screens
MaxChats == 2           \* chat requests made on the explain screen
MaxSessions == 1        \* voice sessions opened on the explain screen

\* ------------------------------------------------------ program constants
PrefetchDepth == 3      \* audioBufferQueueRef.current.length < 3
MinChunkLen == 2        \* filter(s => s.length > 2)
NoTextLen == 5          \* text.trim().length < 5
MinTextLen == 5         \* extractedText.trim().length < 5
ConsumerPoll == 2       \* setTimeout(r, 100)
WorkerPoll == 4         \* setTimeout(r, 200)
Lead == 1               \* (duration * 1000) - 50
DefaultRate == 10       \* useRef(1): rates are counted in tenths
Rates == {5, 10}        \* the slider's 0.5 and 1.0

Max(a, b) == IF a >= b THEN a ELSE b

\* ------------------------------------------------------------ the chunker
\* the characters [.!?\n] of the regular expression
IsTerminator(c) == c \in {".", "!", "?", "\n"}

\* white space removed by String.prototype.trim
IsSpace(c) == c \in {" ", "\n"}

RECURSIVE TrimStart(_)
TrimStart(s) ==
  IF s # <<>> /\ IsSpace(Head(s)) THEN TrimStart(Tail(s)) ELSE s

RECURSIVE TrimEnd(_)
TrimEnd(s) ==
  IF s # <<>> /\ IsSpace(s[Len(s)]) THEN TrimEnd(SubSeq(s, 1, Len(s) - 1)) ELSE s

\* s.trim()
Trim(s) == TrimEnd(TrimStart(s))

\* first position >= i of t that holds a terminator (resp. a non-terminator),
\* Len(t) + 1 when there is none
RECURSIVE NextTerminator(_, _)
NextTerminator(t, i) ==
  IF i > Len(t) \/ IsTerminator(t[i]) THEN i ELSE NextTerminator(t, i + 1)

RECURSIVE NextPlain(_, _)
NextPlain(t, i) ==
  IF i > Len(t) \/ ~IsTerminator(t[i]) THEN i ELSE NextPlain(t, i + 1)

\* text.match(/[^.!?\n]+[.!?\n]*/g): every maximal run of non-terminators
\* together with the terminators that follow it; <<>> stands for null
RECURSIVE MatchFrom(_, _)
MatchFrom(t, i) ==
  LET b == NextPlain(t, i)
      m == NextTerminator(t, b)
      e == NextPlain(t, m)
  IN  IF b > Len(t) THEN <<>>
      ELSE <<SubSeq(t, b, e - 1)>> \o MatchFrom(t, e)

RECURSIVE TrimAndFilter(_)
TrimAndFilter(ms) ==
  IF ms = <<>> THEN <<>>
  ELSE LET s == Trim(Head(ms))
       IN  (IF Len(s) > MinChunkLen THEN <<s>> ELSE <<>>) \o TrimAndFilter(Tail(ms))

\* text.match(...)?.map(s => s.trim()).filter(s => s.length > 2) || [text]
Chunks(t) ==
  LET ms == MatchFrom(t, 1)
  IN  IF ms = <<>> THEN <<t>> ELSE TrimAndFilter(ms)

\* the effect on [text]: chunksRef is computed only for a non-empty text
ChunksEffect(t) == IF t # <<>> THEN Chunks(t) ELSE <<>>

\* the guard without its trim: only the empty text counts as blank
IsBlank_NoTrim(t) == t = <<>>

\* !text || text.trim().length === 0
IsBlank(t) == t = <<>> \/ Len(Trim(t)) = 0

\* the render's (!text || text.trim().length < 5)
ShowsNoText(t) == t = <<>> \/ Len(Trim(t)) < NoTextLen

\* ---------------------------------------------------------- the documents
Sentence == <<"a", "b", "c", "d", ".", " ">>

RECURSIVE Doc(_)
Doc(n) == IF n = 0 THEN <<>> ELSE Sentence \o Doc(n - 1)

\* a document with one sentence more than the queue can hold
LongDoc == Doc(PrefetchDepth + 1)

Docs ==
  {Doc(n) : n \in 0..MaxChunks} \cup {LongDoc, <<" ", "\n">>, <<"a", "b", ".">>}

\* ----------------------------------------------------------------- state
VARIABLES
  text,                 \* the text prop
  mounted,              \* the component has not been torn down
  isReading,            \* useState(false)
  isBuffering,          \* useState(false)
  activeSourcesRef,     \* ids of the sources pushed since the last stopAudio
  nextStartTimeRef,     \* the playback cursor
  isAbortedRef,         \* the abort flag
  playbackRateRef,      \* in tenths
  audioBufferQueueRef,  \* decoded buffers, oldest first
  prefetchIndexRef,     \* the fetch cursor
  chunksRef,            \* the chunk sequence
  ctxState,             \* state of the shared AudioContext
  currentTime,          \* ctx.currentTime
  runs,                 \* one record per started handlePlayAudio
  sources,              \* every AudioBufferSourceNode started, in start order
  requests,             \* every generateSpeech call issued, in issue order
  failed,               \* chunks whose synthesis or decode has failed
  cycle,                \* number of resets of the fetch cursor
  stops,                \* number of stopAudio calls
  stopMark,             \* number of sources started before the last stopAudio
  rateChanges,          \* number of moves of the speed slider
  lastUser              \* the last thing the play button did

\* the PCM decoder
VARIABLES
  data,                 \* the Uint8Array handed to decodeAudioData
  viewDecoded,          \* what decoding data gave, once it has been decoded
  copyDecoded           \* what decoding a zero-offset copy of data gave

decodeVars == <<data, viewDecoded, copyDecoded>>

\* the session
VARIABLES
  state,                \* App: useState<AppState>
  uploadModule,         \* UploadModule: isUploading, loadingPhase, error, acceptedTerms
  uploads,              \* every file chosen, with how far its upload has got
  step,                 \* AdaptiveReader: useState<Step>('FONT')
  comicMode,            \* ComicMode: loading, scenes, speakingIdx, currentSourceRef
  explainMode,          \* ExplainMode: its state and refs
  videoNarrado,         \* VideoNarrado: its state and refs
  globalAudioContext,   \* the module variable of the service, 0 for null
  contexts,             \* every AudioContext created, in creation order
  started,              \* every source started on a screen, in start order
  speaks,               \* every playback request made on a screen
  chats,                \* every chatWithDocument request of the explain screen
  sessions,             \* every live voice session of the explain screen
  lastNav               \* the last change of the navigation state

appVars == <<state, uploadModule, uploads, step, comicMode, explainMode,
             videoNarrado, globalAudioContext, contexts, started, speaks,
             chats, sessions, lastNav>>

otherVars == <<decodeVars, appVars>>

readerVars == <<text, mounted, isReading, isBuffering, activeSourcesRef,
                nextStartTimeRef, isAbortedRef, playbackRateRef,
                audioBufferQueueRef, prefetchIndexRef, chunksRef, ctxState,
                currentTime, runs, sources, requests, failed, cycle, stops,
                stopMark, rateChanges, lastUser>>

vars == <<text, mounted, isReading, isBuffering, activeSourcesRef,
          nextStartTimeRef, isAbortedRef, playbackRateRef, audioBufferQueueRef,
          prefetchIndexRef, chunksRef, ctxState, currentTime, runs, sources,
          requests, failed, cycle, stops, stopMark, rateChanges, lastUser,
          otherVars>>

\* the state as one value, so that the steps of a handler can be composed
Cur ==
  [text |-> text, mounted |-> mounted, isReading |-> isReading,
   isBuffering |-> isBuffering, activeSourcesRef |-> activeSourcesRef,
   nextStartTimeRef |-> nextStartTimeRef, isAbortedRef |-> isAbortedRef,
   playbackRateRef |-> playbackRateRef,
   audioBufferQueueRef |-> audioBufferQueueRef,
   prefetchIndexRef |-> prefetchIndexRef, chunksRef |-> chunksRef,
   ctxState |-> ctxState, currentTime |-> currentTime, runs |-> runs,
   sources |-> sources, requests |-> requests, failed |-> failed,
   cycle |-> cycle, stops |-> stops, stopMark |-> stopMark,
   rateChanges |-> rateChanges,
   lastUser |-> lastUser]

Commit(s) ==
  /\ text' = s.text
  /\ mounted' = s.mounted
  /\ isReading' = s.isReading
  /\ isBuffering' = s.isBuffering
  /\ activeSourcesRef' = s.activeSourcesRef
  /\ nextStartTimeRef' = s.nextStartTimeRef
  /\ isAbortedRef' = s.isAbortedRef
  /\ playbackRateRef' = s.playbackRateRef
  /\ audioBufferQueueRef' = s.audioBufferQueueRef
  /\ prefetchIndexRef' = s.prefetchIndexRef
  /\ chunksRef' = s.chunksRef
  /\ ctxState' = s.ctxState
  /\ currentTime' = s.currentTime
  /\ runs' = s.runs
  /\ sources' = s.sources
  /\ requests' = s.requests
  /\ failed' = s.failed
  /\ cycle' = s.cycle
  /\ stops' = s.stops
  /\ stopMark' = s.stopMark
  /\ rateChanges' = s.rateChanges
  /\ lastUser' = s.lastUser
  /\ UNCHANGED otherVars

\* a state setter is ignored once the component is unmounted
setIsReading(s, v) == IF s.mounted THEN [s EXCEPT !.isReading = v] ELSE s

setIsBuffering(s, v) == IF s.mounted THEN [s EXCEPT !.isBuffering = v] ELSE s

Range(f) == {f[i] : i \in DOMAIN f}

\* a run before it has done anything
NewRun ==
  [cpc |-> "resume", playIndex |-> 0, cdelay |-> 0,
   wpc |-> "none", wchunk |-> 0, wcycle |-> 0, wdelay |-> 0, wstale |-> FALSE]

\* a loop that has returned keeps no local state
consumerReturns(s, r) ==
  [s EXCEPT !.runs[r].cpc = "done", !.runs[r].playIndex = 0, !.runs[r].cdelay = 0]

workerReturns(s, r) ==
  [s EXCEPT !.runs[r].wpc = "done", !.runs[r].wchunk = 0, !.runs[r].wcycle = 0,
            !.runs[r].wdelay = 0, !.runs[r].wstale = FALSE]

\* ------------------------------------------------- the screens at mount
\* useState of App
AppState0 ==
  [text |-> <<>>, originalFileName |-> "undefined", isProcessing |-> FALSE,
   mode |-> "UPLOAD"]

\* UploadModule as it is mounted; "null" stands for no error
UploadFresh ==
  [isUploading |-> FALSE, loadingPhase |-> "", error |-> "null",
   acceptedTerms |-> FALSE]

\* ComicMode as it is mounted, its createComic effect running; -1 stands for
\* a null speakingIdx, 0 for a null source
ComicFresh ==
  [loading |-> TRUE, scenes |-> 0, speakingIdx |-> -1, currentSourceRef |-> 0]

\* ExplainMode as it is mounted, its init effect running; 0 stands for a null
\* audio context and a null live session
ExplainFresh ==
  [isLoadingContent |-> TRUE, messages |-> <<>>, input |-> "",
   isTyping |-> FALSE, speakingIdx |-> -1, isListening |-> FALSE,
   suggestedQuestions |-> {}, liveSessionRef |-> 0,
   audioContextRef |-> 0, activeSourcesRef |-> <<>>]

\* VideoNarrado as it is mounted
VideoFresh ==
  [status |-> "IDLE", audioBuffer |-> FALSE, audioContextRef |-> 0,
   audioSourceRef |-> 0, isPlaying |-> FALSE]

\* the session as the page is loaded
AppIdle ==
  /\ state = AppState0
  /\ uploadModule = UploadFresh
  /\ uploads = <<>>
  /\ step = "FONT"
  /\ comicMode = ComicFresh
  /\ explainMode = ExplainFresh
  /\ videoNarrado = VideoFresh
  /\ globalAudioContext = 0
  /\ contexts = <<>>
  /\ started = <<>>
  /\ speaks = <<>>
  /\ chats = <<>>
  /\ sessions = <<>>
  /\ lastNav = "none"

\* a Uint8Array: an ArrayBuffer and the window of it the view covers
View(buffer, byteOffset, byteLength) ==
  [buffer |-> buffer, byteOffset |-> byteOffset, byteLength |-> byteLength]

\* nothing has been handed to the decoder
DecodeIdle ==
  /\ data = View(<<>>, 0, 0)
  /\ viewDecoded = <<>>
  /\ copyDecoded = <<>>

\* the reader as it is mounted
ReaderInit ==
  /\ text \in Docs
  /\ mounted = TRUE
  /\ isReading = FALSE
  /\ isBuffering = FALSE
  /\ activeSourcesRef = <<>>
  /\ nextStartTimeRef = 0
  /\ isAbortedRef = FALSE
  /\ playbackRateRef = DefaultRate
  /\ audioBufferQueueRef = <<>>
  /\ prefetchIndexRef = 0
  /\ chunksRef = ChunksEffect(text)
  /\ ctxState \in {"suspended", "running"}
  /\ currentTime = 0
  /\ runs = <<>>
  /\ sources = <<>>
  /\ requests = <<>>
  /\ failed = {}
  /\ cycle = 0
  /\ stops = 0
  /\ stopMark = 0
  /\ rateChanges = 0
  /\ lastUser = "none"

Init == ReaderInit /\ DecodeIdle /\ AppIdle

\* ---------------------------------------------------------------- timers
Min(a, b) == IF a <= b THEN a ELSE b

\* setTimeout(r, d): a timer is kept as the delay that remains; a negative
\* delay counts as none
Delay(d) == Max(d, 0)

\* one unit of time passes for a timer
Elapse(d) == Max(d - 1, 0)

Due(d) == d = 0

\* ------------------------------------------------------------- stopAudio
\* stopAudio without its first line: the abort flag is left as it is
stopAudio_LeavesFlag(s) ==
  LET halted == [i \in DOMAIN s.sources |->
                   IF i \in Range(s.activeSourcesRef)
                   THEN [s.sources[i] EXCEPT !.stopped = TRUE]
                   ELSE s.sources[i]]
      s1 == [s EXCEPT !.sources = halted,
                      !.activeSourcesRef = <<>>]
  IN  setIsBuffering(setIsReading(s1, FALSE), FALSE)

stopAudio(s) ==
  LET halted == [i \in DOMAIN s.sources |->
                   IF i \in Range(s.activeSourcesRef)
                   THEN [s.sources[i] EXCEPT !.stopped = TRUE]
                   ELSE s.sources[i]]
      s1 == [s EXCEPT !.isAbortedRef = TRUE,
                      !.sources = halted,
                      !.activeSourcesRef = <<>>]
  IN  setIsBuffering(setIsReading(s1, FALSE), FALSE)

\* bookkeeping of a stop: count it, note how many sources had been started
\* and mark the requests in flight and the buffers in the queue
NoteStop(s) ==
  [s EXCEPT !.stops = @ + 1,
            !.stopMark = Len(s.sources),
            !.audioBufferQueueRef =
               [i \in DOMAIN s.audioBufferQueueRef |->
                  [s.audioBufferQueueRef[i] EXCEPT !.kept = TRUE]],
            !.runs = [r \in DOMAIN s.runs |->
                        IF s.runs[r].wpc = "fetch"
                        THEN [s.runs[r] EXCEPT !.wstale = TRUE]
                        ELSE s.runs[r]]]

\* ----------------------------------------------------------- fetchWorker
\* chunksRef.current[prefetchIndexRef.current++] and the generateSpeech call
requestSpeech(s, r) ==
  [s EXCEPT !.prefetchIndexRef = @ + 1,
            !.requests = Append(@, [chunk |-> s.prefetchIndexRef,
                                    cycle |-> s.cycle,
                                    spare |-> Len(s.audioBufferQueueRef) < PrefetchDepth]),
            !.runs[r].wpc = "fetch",
            !.runs[r].wchunk = s.prefetchIndexRef,
            !.runs[r].wcycle = s.cycle,
            !.runs[r].wdelay = 0,
            !.runs[r].wstale = FALSE]

\* the worker from the head of its while loop to its next await
fetchWorker(s, r) ==
  IF s.prefetchIndexRef < Len(s.chunksRef) /\ ~s.isAbortedRef
  THEN IF Len(s.audioBufferQueueRef) < PrefetchDepth
       THEN requestSpeech(s, r)
       ELSE [s EXCEPT !.runs[r].wpc = "poll",
                      !.runs[r].wdelay = Delay(WorkerPoll)]
  ELSE workerReturns(s, r)

\* the try/catch around the loop instead of inside it: a failure ends the worker
fetchFailed_EndsWorker(s, r) ==
  workerReturns([s EXCEPT !.failed = @ \cup {s.runs[r].wchunk}], r)

\* catch (e) { console.error(e); }: the chunk is dropped, the loop goes on
fetchFailed(s, r) ==
  fetchWorker([s EXCEPT !.failed = @ \cup {s.runs[r].wchunk}], r)

\* generateSpeech has returned audio: the abort check, decodeAudioData (which
\* resumes in the same turn of the event loop) and the push
fetchSucceeded(s, r) ==
  IF s.isAbortedRef
  THEN workerReturns(s, r)
  ELSE fetchWorker(
         [s EXCEPT !.audioBufferQueueRef =
                     Append(@, [chunk |-> s.runs[r].wchunk,
                                duration |-> BufferDuration,
                                cycle |-> s.runs[r].wcycle,
                                stale |-> s.runs[r].wstale,
                                kept |-> FALSE])], r)

\* -------------------------------------------------------------- consumer
\* lines 231-246: take the oldest buffer and start a source for it
schedule(s, r) ==
  LET buffer == Head(s.audioBufferQueueRef)
      rate == s.playbackRateRef
      startTime == Max(s.nextStartTimeRef, s.currentTime)
      duration == (buffer.duration * 10) \div rate
      source == [chunk |-> buffer.chunk, cycle |-> buffer.cycle,
                 stale |-> buffer.stale, kept |-> buffer.kept, rate |-> rate,
                 start |-> startTime, dur |-> duration, stopped |-> FALSE,
                 device |-> s.ctxState]
      s1 == setIsBuffering(s, FALSE)
  IN  [s1 EXCEPT !.audioBufferQueueRef = Tail(@),
                 !.sources = Append(@, source),
                 !.activeSourcesRef = Append(@, Len(s.sources) + 1),
                 !.nextStartTimeRef = startTime + duration,
                 !.runs[r].playIndex = @ + 1,
                 !.runs[r].cpc = "wait",
                 !.runs[r].cdelay = Delay(duration - Lead)]

\* a completion that leaves the fetch cursor where it is
finish_KeepsCursor(s, r) ==
  IF s.runs[r].playIndex >= Len(s.chunksRef) /\ ~s.isAbortedRef
  THEN consumerReturns(setIsReading(s, FALSE), r)
  ELSE consumerReturns(s, r)

\* lines 253-256: what follows the consumer's while loop
finish(s, r) ==
  IF s.runs[r].playIndex >= Len(s.chunksRef) /\ ~s.isAbortedRef
  THEN consumerReturns([setIsReading(s, FALSE) EXCEPT !.prefetchIndexRef = 0,
                                                      !.cycle = @ + 1], r)
  ELSE consumerReturns(s, r)

\* the consumer from the head of its while loop to its next await
consumer(s, r) ==
  IF s.runs[r].playIndex < Len(s.chunksRef) /\ ~s.isAbortedRef
  THEN IF Len(s.audioBufferQueueRef) > 0
       THEN schedule(s, r)
       ELSE [setIsBuffering(s, TRUE) EXCEPT !.runs[r].cpc = "wait",
                                            !.runs[r].cdelay = Delay(ConsumerPoll)]
  ELSE finish(s, r)

\* -------------------------------------------------------- handlePlayAudio
\* a start that empties the queue first
startRun_DiscardsQueue(s, r) ==
  LET s1 == setIsReading(s, TRUE)
      s2 == [s1 EXCEPT !.isAbortedRef = FALSE, !.audioBufferQueueRef = <<>>]
      s3 == setIsBuffering(s2, Len(s2.audioBufferQueueRef) = 0)
      s4 == [s3 EXCEPT !.nextStartTimeRef = s3.currentTime]
  IN  consumer(fetchWorker(s4, r), r)

\* lines 203-251, entered once the device is running: the flags, the cursor,
\* the worker up to its first await, the consumer up to its first await
startRun(s, r) ==
  LET s1 == setIsReading(s, TRUE)
      s2 == [s1 EXCEPT !.isAbortedRef = FALSE]
      s3 == setIsBuffering(s2, Len(s2.audioBufferQueueRef) = 0)
      s4 == [s3 EXCEPT !.nextStartTimeRef = s3.currentTime]
  IN  consumer(fetchWorker(s4, r), r)

\* catch (err) { setIsReading(false); } after a rejected ctx.resume()
resumeRejected(s, r) == consumerReturns(setIsReading(s, FALSE), r)

\* the play button: lines 195-201 and, on a running device, the rest
handlePlayAudio ==
  /\ mounted
  /\ LET s == Cur
         r == Len(runs) + 1
         s1 == [s EXCEPT !.runs = Append(@, NewRun), !.lastUser = "play"]
     IN  IF IsBlank(text)
         THEN Commit([s EXCEPT !.lastUser = "play"])
         ELSE IF isReading
         THEN Commit([stopAudio(NoteStop(s)) EXCEPT !.lastUser = "stop"])
         ELSE /\ Len(runs) < MaxRuns
              /\ IF ctxState = "suspended"
                 THEN Commit(s1)
                 ELSE Commit(startRun(s1, r))

\* every resume() promise pending on the device settles in the same task, and
\* the handlers waiting on them continue one after the other
RECURSIVE resumePending(_, _, _)
resumePending(s, r, ok) ==
  IF r > Len(s.runs) THEN s
  ELSE IF s.runs[r].cpc # "resume" THEN resumePending(s, r + 1, ok)
  ELSE resumePending(IF ok THEN startRun(s, r) ELSE resumeRejected(s, r), r + 1, ok)

ResumeSettles ==
  /\ \E r \in DOMAIN runs : runs[r].cpc = "resume"
  /\ \E ok \in BOOLEAN :
       Commit(resumePending([Cur EXCEPT !.ctxState = IF ok THEN "running" ELSE @], 1, ok))

\* a generateSpeech call returns, with audio or with a failure
SpeechSettles(r) ==
  /\ runs[r].wpc = "fetch"
  /\ \/ Commit(fetchSucceeded(Cur, r))
     \/ /\ Cardinality(failed) < MaxFailures
        /\ Commit(fetchFailed(Cur, r))

\* the consumer's pacing or polling delay elapses
ConsumerTimer(r) ==
  /\ runs[r].cpc = "wait"
  /\ Due(runs[r].cdelay)
  /\ Commit(consumer(Cur, r))

\* the worker's polling delay elapses
WorkerTimer(r) ==
  /\ runs[r].wpc = "poll"
  /\ Due(runs[r].wdelay)
  /\ Commit(fetchWorker(Cur, r))

\* one unit of time passes: the device clock advances (its reading is kept up
\* to MaxTime) and every running timer comes one unit closer
Tick ==
  /\ \/ currentTime < MaxTime
     \/ \E r \in DOMAIN runs : runs[r].cdelay > 0 \/ runs[r].wdelay > 0
  /\ Commit([Cur EXCEPT !.currentTime = Min(@ + 1, MaxTime),
                        !.runs = [r \in DOMAIN runs |->
                                    [runs[r] EXCEPT !.cdelay = Elapse(@),
                                                    !.wdelay = Elapse(@)]]])

\* a slider that also retunes the sources that are already playing
SetPlaybackSpeed_Retunes(v) ==
  /\ mounted
  /\ v # playbackRateRef
  /\ rateChanges < MaxRateChanges
  /\ Commit([Cur EXCEPT !.playbackRateRef = v, !.rateChanges = @ + 1,
                        !.sources = [i \in DOMAIN sources |->
                                       IF i \in Range(activeSourcesRef)
                                       THEN [sources[i] EXCEPT !.rate = v]
                                       ELSE sources[i]]])

\* the speed slider: setPlaybackSpeed and the effect that copies it to the ref
SetPlaybackSpeed(v) ==
  /\ mounted
  /\ v # playbackRateRef
  /\ rateChanges < MaxRateChanges
  /\ Commit([Cur EXCEPT !.playbackRateRef = v, !.rateChanges = @ + 1])

\* the cleanup of the effect on [text]: return () => stopAudio()
Unmount ==
  /\ mounted
  /\ Commit([stopAudio(NoteStop(Cur)) EXCEPT !.mounted = FALSE])

Next ==
  \/ handlePlayAudio
  \/ ResumeSettles
  \/ \E r \in DOMAIN runs : SpeechSettles(r)
  \/ \E r \in DOMAIN runs : ConsumerTimer(r)
  \/ \E r \in DOMAIN runs : WorkerTimer(r)
  \/ Tick
  \/ \E v \in Rates : SetPlaybackSpeed(v)
  \/ Unmount

Spec == Init /\ [][Next]_vars

\* the narration on a device that is running when the reader is mounted: no
\* handlePlayAudio ever waits for a resume
ReplayInit == Init /\ ctxState = "running"

ReplayNext ==
  \/ handlePlayAudio
  \/ \E r \in DOMAIN runs : SpeechSettles(r)
  \/ \E r \in DOMAIN runs : ConsumerTimer(r)
  \/ \E r \in DOMAIN runs : WorkerTimer(r)
  \/ Tick
  \/ \E v \in Rates : SetPlaybackSpeed(v)
  \/ Unmount

ReplaySpec == ReplayInit /\ [][ReplayNext]_vars

\* ------------------------------------------------- the chunker on its own
\* every text of up to MaxTextLen characters over a letter, a terminator, a
\* space and a newline, and the documents
RECURSIVE TextsOfLen(_)
TextsOfLen(n) ==
  IF n = 0 THEN {<<>>}
  ELSE {<<c>> \o t : c \in {"a", ".", " ", "\n"}, t \in TextsOfLen(n - 1)}

Texts == Docs \cup UNION {TextsOfLen(n) : n \in 0..MaxTextLen}

\* the reader about to be mounted with any of these texts
ChunkInit ==
  /\ text \in Texts
  /\ mounted = FALSE
  /\ isReading = FALSE
  /\ isBuffering = FALSE
  /\ activeSourcesRef = <<>>
  /\ nextStartTimeRef = 0
  /\ isAbortedRef = FALSE
  /\ playbackRateRef = DefaultRate
  /\ audioBufferQueueRef = <<>>
  /\ prefetchIndexRef = 0
  /\ chunksRef = <<>>
  /\ ctxState = "suspended"
  /\ currentTime = 0
  /\ runs = <<>>
  /\ sources = <<>>
  /\ requests = <<>>
  /\ failed = {}
  /\ cycle = 0
  /\ stops = 0
  /\ stopMark = 0
  /\ rateChanges = 0
  /\ lastUser = "none"
  /\ DecodeIdle
  /\ AppIdle

\* the effect on [text] runs at mount
ChunkEffect ==
  /\ ~mounted
  /\ Commit([Cur EXCEPT !.mounted = TRUE, !.chunksRef = ChunksEffect(text)])

ChunkNext == ChunkEffect

ChunkSpec == ChunkInit /\ [][ChunkNext]_vars

\* one unit of time passes, on a device clock that is read up to MaxClock
TickLong ==
  /\ \/ currentTime < MaxClock
     \/ \E r \in DOMAIN runs : runs[r].cdelay > 0 \/ runs[r].wdelay > 0
  /\ Commit([Cur EXCEPT !.currentTime = Min(@ + 1, MaxClock),
                        !.runs = [r \in DOMAIN runs |->
                                    [runs[r] EXCEPT !.cdelay = Elapse(@),
                                                    !.wdelay = Elapse(@)]]])

\* the narration of a document of three sentences, followed on the longer clock
ClockInit == Init /\ text = Doc(3)

\* with no more sentences than PrefetchDepth the worker has requested them all
\* before the queue is full, so it never waits on its 200 ms timer and
\* WorkerTimer has no step here
ClockNext ==
  \/ handlePlayAudio
  \/ ResumeSettles
  \/ \E r \in DOMAIN runs : SpeechSettles(r)
  \/ \E r \in DOMAIN runs : ConsumerTimer(r)
  \/ TickLong
  \/ \E v \in Rates : SetPlaybackSpeed(v)

ClockSpec == ClockInit /\ [][ClockNext]_vars

\* what the event loop guarantees: time passes, a timer that is due fires, a
\* pending promise (a speech request, a device resume) settles; what the user
\* does is not forced
Fairness ==
  /\ WF_vars(Tick)
  /\ WF_vars(ResumeSettles)
  /\ \A r \in 1..MaxRuns : WF_vars(r \in DOMAIN runs /\ SpeechSettles(r))
  /\ \A r \in 1..MaxRuns : WF_vars(r \in DOMAIN runs /\ ConsumerTimer(r))
  /\ \A r \in 1..MaxRuns : WF_vars(r \in DOMAIN runs /\ WorkerTimer(r))

FairSpec == Spec /\ Fairness

\* ------------------------------------------------------- decodeAudioData
Bytes == {0, 128, 255}

\* every ArrayBuffer of at most MaxAlloc bytes
Allocations == UNION {[1..n -> Bytes] : n \in 0..MaxAlloc}

\* every Uint8Array over such a buffer: buffer.subarray(o, o + n)
Views ==
  {v \in {View(b, o, n) : b \in Allocations, o \in 0..MaxAlloc, n \in 0..MaxAlloc} :
     v.byteOffset + v.byteLength <= Len(v.buffer)}

\* ArrayBuffer.prototype.slice(begin, end)
slice(buffer, begin, end) == SubSeq(buffer, begin + 1, end)

\* the 16-bit pattern u read as a signed integer
ToInt16(u) == IF u >= 32768 THEN u - 65536 ELSE u

\* new Int16Array(arrayBuffer) for a buffer of even length: little-endian pairs
Int16Array(arrayBuffer) ==
  [i \in 1..(Len(arrayBuffer) \div 2) |->
     ToInt16(arrayBuffer[2 * i - 1] + 256 * arrayBuffer[2 * i])]

\* new Int16Array(arrayBuffer) throws for a buffer of odd length
RangeError == [threw |-> TRUE, frameCount |-> 0, channelData |-> <<>>]

\* the AudioBuffer of one channel; a sample dataInt16[i] / 32768.0 is kept as
\* its numerator dataInt16[i]
AudioBuffer(dataInt16) ==
  [threw |-> FALSE, frameCount |-> Len(dataInt16), channelData |-> dataInt16]

\* the decoder reading data.buffer whole, as the earlier service did
decodeAudioData_WholeBuffer(d) ==
  IF Len(d.buffer) % 2 # 0 THEN RangeError
  ELSE AudioBuffer(Int16Array(d.buffer))

\* decodeAudioData(data, ctx) with its default sampleRate and numChannels = 1
decodeAudioData(d) ==
  LET arrayBuffer == slice(d.buffer, d.byteOffset, d.byteOffset + d.byteLength)
  IN  IF Len(arrayBuffer) % 2 # 0 THEN RangeError
      ELSE AudioBuffer(Int16Array(arrayBuffer))

\* new Uint8Array(d): the same bytes in a buffer of their own, at offset 0
CopyOf(d) ==
  View(slice(d.buffer, d.byteOffset, d.byteOffset + d.byteLength), 0, d.byteLength)

\* the reader with nothing to read
ReaderIdle == ReaderInit /\ text = <<>> /\ ctxState = "suspended"

DecodeInit ==
  /\ ReaderIdle
  /\ AppIdle
  /\ data \in Views
  /\ viewDecoded = <<>>
  /\ copyDecoded = <<>>

\* decodeAudioData is applied to the view
DecodeView ==
  /\ viewDecoded = <<>>
  /\ viewDecoded' = <<decodeAudioData(data)>>
  /\ UNCHANGED <<data, copyDecoded>>
  /\ UNCHANGED <<readerVars, appVars>>

\* decodeAudioData is applied to a copy of the view's bytes
DecodeCopy ==
  /\ copyDecoded = <<>>
  /\ copyDecoded' = <<decodeAudioData(CopyOf(data))>>
  /\ UNCHANGED <<data, viewDecoded>>
  /\ UNCHANGED <<readerVars, appVars>>

DecodeNext == DecodeView \/ DecodeCopy

DecodeSpec == DecodeInit /\ [][DecodeNext]_vars

\* ------------------------------------------------------------ the session
AppCur ==
  [state |-> state, uploadModule |-> uploadModule, uploads |-> uploads,
   step |-> step, comicMode |-> comicMode, explainMode |-> explainMode,
   videoNarrado |-> videoNarrado, globalAudioContext |-> globalAudioContext,
   contexts |-> contexts, started |-> started, speaks |-> speaks,
   chats |-> chats, sessions |-> sessions, lastNav |-> lastNav]

AppCommit(s) ==
  /\ state' = s.state
  /\ uploadModule' = s.uploadModule
  /\ uploads' = s.uploads
  /\ step' = s.step
  /\ comicMode' = s.comicMode
  /\ explainMode' = s.explainMode
  /\ videoNarrado' = s.videoNarrado
  /\ globalAudioContext' = s.globalAudioContext
  /\ contexts' = s.contexts
  /\ started' = s.started
  /\ speaks' = s.speaks
  /\ chats' = s.chats
  /\ sessions' = s.sessions
  /\ lastNav' = s.lastNav
  /\ UNCHANGED <<readerVars, decodeVars>>

\* source.stop() on the source a ref holds, if it holds one
stopSource(s, i) ==
  IF i = 0 THEN s ELSE [s EXCEPT !.started[i].stopped = TRUE]

RECURSIVE stopSources(_, _)
stopSources(s, ids) ==
  IF ids = <<>> THEN s ELSE stopSources(stopSource(s, Head(ids)), Tail(ids))

\* ComicMode.stopAudio
comicStopAudio(s) ==
  [stopSource(s, s.comicMode.currentSourceRef)
     EXCEPT !.comicMode.currentSourceRef = 0, !.comicMode.speakingIdx = -1]

\* ExplainMode.stopAudio
explainStopAudio(s) ==
  [stopSources(s, s.explainMode.activeSourcesRef)
     EXCEPT !.explainMode.activeSourcesRef = <<>>, !.explainMode.speakingIdx = -1]

\* the playback requests of a screen that is torn down go on without it; a
\* video generation keeps the audio context its screen had
orphan(s, path) ==
  [s EXCEPT
     !.speaks =
       [k \in DOMAIN s.speaks |->
          IF s.speaks[k].path = path /\ s.speaks[k].live
          THEN [s.speaks[k] EXCEPT
                  !.live = FALSE,
                  !.ctx = IF path = "video" THEN s.videoNarrado.audioContextRef ELSE @]
          ELSE s.speaks[k]],
     !.started =
       [i \in DOMAIN s.started |->
          IF s.started[i].path = path
          THEN [s.started[i] EXCEPT !.live = FALSE]
          ELSE s.started[i]]]

\* session.close() on the session a ref holds, if it holds one
closeSession(s, k) ==
  IF k = 0 \/ s.sessions[k].pc # "open" THEN s
  ELSE [s EXCEPT !.sessions[k].pc = "closing"]

\* the cleanup of the ExplainMode effect; the chat requests and the voice
\* sessions of the screen go on without it, with the refs it had
explainCleanup(s) ==
  LET s1 == closeSession(explainStopAudio(s), s.explainMode.liveSessionRef)
  IN  [orphan(s1, "explain") EXCEPT
         !.chats = [k \in DOMAIN s1.chats |->
                      IF s1.chats[k].pc = "pending"
                      THEN [s1.chats[k] EXCEPT
                              !.live = FALSE, !.ctx = s1.explainMode.audioContextRef]
                      ELSE s1.chats[k]],
         !.sessions = [k \in DOMAIN s1.sessions |->
                         [s1.sessions[k] EXCEPT !.live = FALSE]]]

\* the screen on display is torn down: its effect cleanup runs, its state is gone
unmountScreen(s) ==
  CASE s.state.mode = "UPLOAD" -> [s EXCEPT !.uploadModule = UploadFresh]
    [] s.state.mode = "READER" -> [s EXCEPT !.step = "FONT"]
    [] s.state.mode = "COMIC" ->
         [orphan(comicStopAudio(s), "comic") EXCEPT !.comicMode = ComicFresh]
    [] s.state.mode = "EXPLAIN" ->
         [explainCleanup(s) EXCEPT !.explainMode = ExplainFresh]
    [] s.state.mode = "VIDEO" ->
         [orphan(s, "video") EXCEPT !.videoNarrado = VideoFresh]
    [] OTHER -> s

\* setState of App and the render that follows it: a change of mode replaces
\* the screen
setState(s, next) ==
  IF next.mode = s.state.mode
  THEN [s EXCEPT !.state = next]
  ELSE [unmountScreen(s) EXCEPT !.state = next]

\* ----------------------------------------------------------------- App
\* handleTextExtracted as the upload screen was given it: the state it
\* spreads is the one of the render that passed it down
handleTextExtracted(s, captured, t, fileName) ==
  setState([s EXCEPT !.lastNav = "upload"],
           [captured EXCEPT !.text = t, !.originalFileName = fileName,
                            !.mode = "SELECTION"])

\* onNavigateHome and the "load another file" button
navigateHome(s, how) ==
  setState([s EXCEPT !.lastNav = how],
           [s.state EXCEPT !.mode = "UPLOAD", !.text = <<>>])

\* a card of the selection screen
selectMode(s, m) ==
  setState([s EXCEPT !.lastNav = "select"], [s.state EXCEPT !.mode = m])

\* a back button that also forgets the document
onBack_ClearsText(s) ==
  setState([s EXCEPT !.lastNav = "back"],
           [s.state EXCEPT !.text = <<>>,
              !.mode = IF s.state.mode = "SELECTION" THEN "UPLOAD" ELSE "SELECTION"])

\* onBack
onBack(s) ==
  setState([s EXCEPT !.lastNav = "back"],
           [s.state EXCEPT
              !.mode = IF s.state.mode = "SELECTION" THEN "UPLOAD" ELSE "SELECTION"])

Modes == {"READER", "EXPLAIN", "COMIC", "VIDEO"}

NavigateHome == AppCommit(navigateHome(AppCur, "home"))

LoadAnother ==
  /\ state.mode = "SELECTION"
  /\ AppCommit(navigateHome(AppCur, "another"))

SelectMode(m) ==
  /\ state.mode = "SELECTION"
  /\ AppCommit(selectMode(AppCur, m))

\* the back button is shown on the four mode screens
Back ==
  /\ state.mode \in Modes
  /\ AppCommit(onBack(AppCur))

\* -------------------------------------------------------- UploadModule
\* the files the user may choose: what they hold and whether they can be read
Files ==
  {[name |-> "story.pdf", kind |-> "story", readable |-> TRUE],
   [name |-> "blurred.png", kind |-> "blurred", readable |-> TRUE],
   [name |-> "blank.png", kind |-> "blank", readable |-> TRUE],
   [name |-> "unsafe.pdf", kind |-> "unsafe", readable |-> TRUE],
   [name |-> "locked.pdf", kind |-> "story", readable |-> FALSE]}

\* what the provider has written when it declines in its own words
Refusal == <<"n", "o", " ", "a", "p", "t", "o">>

\* what generateContent may answer for a file: response.text is a string or,
\* when the provider returns no candidate, undefined; or the call throws
Responses(kind) ==
  {[ok |-> FALSE, hasText |-> FALSE, text |-> <<>>, declined |-> FALSE]} \cup
  CASE kind = "story" ->
         {[ok |-> TRUE, hasText |-> TRUE, text |-> Doc(1), declined |-> FALSE]}
    [] kind = "blurred" ->
         {[ok |-> TRUE, hasText |-> TRUE, text |-> <<"a", "b", ".">>,
           declined |-> FALSE]}
    [] kind = "blank" ->
         {[ok |-> TRUE, hasText |-> TRUE, text |-> <<>>, declined |-> FALSE]}
    [] kind = "unsafe" ->
         {[ok |-> TRUE, hasText |-> FALSE, text |-> <<>>, declined |-> TRUE],
          [ok |-> TRUE, hasText |-> TRUE, text |-> Refusal, declined |-> TRUE]}

\* extractTextFromMedia once generateContent has answered: response.text || ""
extractTextFromMedia(response) ==
  IF response.hasText THEN response.text ELSE <<>>

\* a length test that rejects the empty text only
TooShort_EmptyOnly(t) == t = <<>>

\* !extractedText || extractedText.trim().length < 5
TooShort(t) == t = <<>> \/ Len(Trim(t)) < MinTextLen

\* the checkbox of the legal notice
ToggleTerms ==
  /\ state.mode = "UPLOAD"
  /\ AppCommit([AppCur EXCEPT !.uploadModule.acceptedTerms = ~@])

\* a file input and a handler that do not look at the terms
handleFileChange_NoTerms(file) ==
  /\ state.mode = "UPLOAD"
  /\ ~uploadModule.isUploading
  /\ Len(uploads) < MaxUploads
  /\ AppCommit([AppCur EXCEPT
        !.uploadModule.isUploading = TRUE,
        !.uploadModule.error = "null",
        !.uploadModule.loadingPhase = "readingFile",
        !.uploads = Append(@, [file |-> file, phase |-> "reading",
                               captured |-> state, requests |-> 0,
                               extracted |-> <<>>, declined |-> FALSE])])

\* handleFileChange up to reader.readAsDataURL(file); the input is disabled
\* while uploading or before the terms are accepted
handleFileChange(file) ==
  /\ state.mode = "UPLOAD"
  /\ uploadModule.acceptedTerms /\ ~uploadModule.isUploading
  /\ Len(uploads) < MaxUploads
  /\ AppCommit([AppCur EXCEPT
        !.uploadModule.isUploading = TRUE,
        !.uploadModule.error = "null",
        !.uploadModule.loadingPhase = "readingFile",
        !.uploads = Append(@, [file |-> file, phase |-> "reading",
                               captured |-> state, requests |-> 0,
                               extracted |-> <<>>, declined |-> FALSE])])

\* the catch of reader.onload
uploadFailed(s, k) ==
  [s EXCEPT !.uploadModule.error = "errorOverload",
            !.uploadModule.isUploading = FALSE,
            !.uploads[k].phase = "failed",
            !.uploads[k].captured = AppState0]

\* the FileReader is done: its load event runs reader.onload up to the await
\* of extractTextFromMedia; its error event has no handler
ReaderSettles(k) ==
  /\ uploads[k].phase = "reading"
  /\ IF uploads[k].file.readable
     THEN AppCommit([AppCur EXCEPT !.uploadModule.loadingPhase = "extracting",
                                   !.uploads[k].phase = "extracting",
                                   !.uploads[k].requests = @ + 1])
     ELSE AppCommit([AppCur EXCEPT !.uploads[k].phase = "unread",
                                   !.uploads[k].captured = AppState0])

\* extractTextFromMedia settles: the rest of reader.onload
ExtractSettles(k) ==
  /\ uploads[k].phase = "extracting"
  /\ \E response \in Responses(uploads[k].file.kind) :
       LET extractedText == extractTextFromMedia(response)
           s == [AppCur EXCEPT !.uploads[k].extracted = extractedText,
                               !.uploads[k].declined = response.declined]
       IN  IF ~response.ok \/ TooShort(extractedText)
           THEN AppCommit(uploadFailed(s, k))
           ELSE AppCommit(handleTextExtracted(
                  [s EXCEPT !.uploads[k].phase = "done",
                            !.uploads[k].captured = AppState0],
                  uploads[k].captured, extractedText, uploads[k].file.name))

\* ------------------------------------------------------ the audio contexts
\* the state a context may be created in: running inside a user gesture the
\* browser accepts, suspended otherwise
ContextStates == {"suspended", "running"}

\* new AudioContext({ sampleRate: 24000 })
newContext(s, owner, st) ==
  [s EXCEPT !.contexts = Append(@, [owner |-> owner, state |-> st])]

\* getSharedAudioContext: the context is created on the first call only
getSharedAudioContext(s, st) ==
  IF s.globalAudioContext = 0
  THEN [newContext(s, "shared", st) EXCEPT !.globalAudioContext = Len(s.contexts) + 1]
  ELSE s

\* a playback request: where its handler stands, the context it plays on, the
\* index it was made for and whether its screen is still there
Speak(path, pc, ctx, idx) ==
  [path |-> path, pc |-> pc, ctx |-> ctx, idx |-> idx, live |-> TRUE]

\* a handler that has returned keeps no local state
speakReturns(s, k) ==
  [s EXCEPT !.speaks[k] = [Speak(@.path, "done", 0, 0) EXCEPT !.live = FALSE]]

\* source.start() on context c: the source, and the state the device is in
startSource(s, path, c, live) ==
  [s EXCEPT !.started = Append(@, [path |-> path, ctx |-> c,
                                   device |-> s.contexts[c].state,
                                   stopped |-> FALSE, ended |-> FALSE,
                                   live |-> live])]

\* ------------------------------------------------------------ the reader
\* the button of the font step
FontChosen ==
  /\ state.mode = "READER" /\ step = "FONT"
  /\ AppCommit([AppCur EXCEPT !.step = "SPACING"])

\* handleFinalStep: unlockAudioForiOS up to its await or, on a running
\* device, to its end, and setStep('READ')
handleFinalStep ==
  /\ state.mode = "READER" /\ step = "SPACING"
  /\ Len(speaks) < MaxSpeaks
  /\ \E st \in ContextStates :
       LET s1 == getSharedAudioContext(AppCur, st)
           c == s1.globalAudioContext
           s2 == [s1 EXCEPT !.step = "READ"]
       IN  IF s1.contexts[c].state = "suspended"
           THEN AppCommit([s2 EXCEPT !.speaks = Append(@, Speak("unlock", "resume", c, 0))])
           ELSE AppCommit(speakReturns(
                  [startSource(s2, "unlock", c, TRUE)
                     EXCEPT !.speaks = Append(@, Speak("unlock", "done", c, 0))],
                  Len(speaks) + 1))

\* the settings button of the reading step
OpenSettings ==
  /\ state.mode = "READER" /\ step = "READ"
  /\ AppCommit([AppCur EXCEPT !.step = "FONT"])

\* ------------------------------------------------------------- ComicMode
\* numbers of scenes generateComicScenes may return
SceneCounts == {0, 2}

\* createComic: generateComicScenes settles and, the images being display
\* only, so does the loop over generateSceneImage
ComicSettles ==
  /\ state.mode = "COMIC" /\ comicMode.loading
  /\ \E n \in SceneCounts :
       AppCommit([AppCur EXCEPT !.comicMode.scenes = n, !.comicMode.loading = FALSE])

\* ComicMode.handleSpeak up to its first await that suspends
comicHandleSpeak(idx) ==
  /\ state.mode = "COMIC"
  /\ idx \in 0..(comicMode.scenes - 1)
  /\ IF comicMode.speakingIdx = idx
     THEN AppCommit(comicStopAudio(AppCur))
     ELSE /\ Len(speaks) < MaxSpeaks
          /\ \E st \in ContextStates :
               LET s1 == getSharedAudioContext(comicStopAudio(AppCur), st)
                   c == s1.globalAudioContext
               IN  IF s1.contexts[c].state = "suspended"
                   THEN AppCommit([s1 EXCEPT
                          !.speaks = Append(@, Speak("comic", "resume", c, idx))])
                   ELSE AppCommit([s1 EXCEPT
                          !.comicMode.speakingIdx = idx,
                          !.speaks = Append(@, Speak("comic", "speech", c, idx))])

\* ----------------------------------------------------------- ExplainMode
\* what generateSuggestedQuestions gives, what the user types (the empty
\* input and one of spaces only among them) and what the user says
Questions == {"who"}
Inputs == {"", " ", "why"}
Utterances == {"how"}

\* the init effect settles: summary and questions have arrived, or one failed
InitSettles ==
  /\ state.mode = "EXPLAIN" /\ explainMode.isLoadingContent
  /\ \E ok \in BOOLEAN :
       IF ok
       THEN AppCommit([AppCur EXCEPT
              !.explainMode.suggestedQuestions = Questions,
              !.explainMode.messages = <<[role |-> "model", text |-> "tutorGreeting"]>>,
              !.explainMode.isLoadingContent = FALSE])
       ELSE AppCommit([AppCur EXCEPT !.explainMode.isLoadingContent = FALSE])

\* ExplainMode.handleSpeak up to its first await that suspends; seen is the
\* speakingIdx of the render the handler comes from
explainHandleSpeak(s, idx, seen, st) ==
  IF seen = idx THEN explainStopAudio(s)
  ELSE LET s1 == [explainStopAudio(s) EXCEPT !.explainMode.speakingIdx = idx]
           s2 == IF s1.explainMode.audioContextRef = 0
                 THEN [newContext(s1, "explain", st)
                         EXCEPT !.explainMode.audioContextRef = Len(s1.contexts) + 1]
                 ELSE s1
           c == s2.explainMode.audioContextRef
       IN  [s2 EXCEPT !.speaks =
              Append(@, Speak("explain",
                              IF s2.contexts[c].state = "suspended" THEN "resume" ELSE "speech",
                              c, idx))]

\* the buttons that speak: one per message of the model, and the summary's
SpeakButtons ==
  {i - 1 : i \in {j \in DOMAIN explainMode.messages : explainMode.messages[j].role = "model"}}
  \cup (IF explainMode.isLoadingContent THEN {} ELSE {999})

\* the chat requests that have not been answered: each will speak its answer
PendingChats == {k \in DOMAIN chats : chats[k].pc = "pending"}

SpeakClicked(idx) ==
  /\ state.mode = "EXPLAIN"
  /\ idx \in SpeakButtons
  /\ Len(speaks) + Cardinality(PendingChats) < MaxSpeaks
     \/ explainMode.speakingIdx = idx
  /\ \E st \in ContextStates :
       AppCommit(explainHandleSpeak(AppCur, idx, explainMode.speakingIdx, st))

\* ------------------------------------------------- ExplainMode: the chat
\* !msgToSend.trim()
Blank(v) == v \in {"", " "}

\* what the handlers of a render see of the state of that render
Closure(s) ==
  [input |-> s.explainMode.input, isTyping |-> s.explainMode.isTyping,
   n |-> Len(s.explainMode.messages), seen |-> s.explainMode.speakingIdx]

NoClosure == [input |-> "", isTyping |-> FALSE, n |-> 0, seen |-> -1]

\* ExplainMode.handleSend up to the await of chatWithDocument: val is "" for
\* a call without argument, c the render the handler comes from, live
\* whether the screen of that render is still there
handleSend(s, val, c, live) ==
  LET msgToSend == IF val # "" THEN val ELSE c.input
      chat == [msg |-> msgToSend, pc |-> "pending", n |-> c.n, seen |-> c.seen,
               live |-> live, ctx |-> 0]
  IN  IF Blank(msgToSend) \/ c.isTyping THEN s
      ELSE IF ~live THEN [s EXCEPT !.chats = Append(@, chat)]
      ELSE [s EXCEPT !.explainMode.input = "",
                     !.explainMode.messages =
                        Append(@, [role |-> "user", text |-> msgToSend]),
                     !.explainMode.isTyping = TRUE,
                     !.chats = Append(@, chat)]

\* room for one more chat request and the answer it will speak
ChatRoom ==
  /\ Len(chats) < MaxChats
  /\ Len(speaks) + Cardinality(PendingChats) < MaxSpeaks

\* onChange of the input field
TypeInput(v) ==
  /\ state.mode = "EXPLAIN"
  /\ v # explainMode.input
  /\ AppCommit([AppCur EXCEPT !.explainMode.input = v])

\* Enter in the input field or the send button (val ""), or a suggested
\* question
Send(val) ==
  /\ state.mode = "EXPLAIN"
  /\ val \in {""} \cup explainMode.suggestedQuestions
  /\ ChatRoom
  /\ AppCommit(handleSend(AppCur, val, Closure(AppCur), TRUE))

\* a handleSpeak that runs for a screen that is gone: its state setters do
\* nothing, its refs are the ones the screen had
explainHandleSpeakGone(s, idx, seen, ctx, st) ==
  IF seen = idx THEN s
  ELSE LET s1 == IF ctx = 0 THEN newContext(s, "explain", st) ELSE s
           c == IF ctx = 0 THEN Len(s.contexts) + 1 ELSE ctx
       IN  [s1 EXCEPT !.speaks =
              Append(@, [Speak("explain",
                               IF s1.contexts[c].state = "suspended"
                               THEN "resume" ELSE "speech", c, idx)
                           EXCEPT !.live = FALSE])]

\* a chat request that has been answered keeps its message only
chatReturns(s, k) ==
  [s EXCEPT !.chats[k] = [msg |-> @.msg, pc |-> "done", n |-> 0, seen |-> -1,
                          live |-> FALSE, ctx |-> 0]]

\* the rest of handleSend once chatWithDocument has answered
chatAnswered(s, k, st) ==
  LET j == s.chats[k]
  IN  IF ~j.live
      THEN chatReturns(explainHandleSpeakGone(s, j.n + 1, j.seen, j.ctx, st), k)
      ELSE LET s1 == [s EXCEPT !.explainMode.messages =
                                  Append(@, [role |-> "model", text |-> "response"])]
               s2 == explainHandleSpeak(s1, j.n + 1, j.seen, st)
           IN  chatReturns([s2 EXCEPT !.explainMode.isTyping = FALSE], k)

\* the catch of handleSend
chatFailed(s, k) ==
  IF ~s.chats[k].live THEN chatReturns(s, k)
  ELSE chatReturns([s EXCEPT
         !.explainMode.messages = Append(@, [role |-> "model", text |-> "Oops! Error."]),
         !.explainMode.isTyping = FALSE], k)

\* chatWithDocument settles
ChatSettles(k) ==
  /\ chats[k].pc = "pending"
  /\ \/ \E st \in ContextStates : AppCommit(chatAnswered(AppCur, k, st))
     \/ AppCommit(chatFailed(AppCur, k))

\* ExplainMode.toggleListen up to its first await: the callbacks of the
\* session it opens are those of the render the click came from
toggleListen ==
  /\ state.mode = "EXPLAIN"
  /\ IF explainMode.isListening
     THEN AppCommit([closeSession(AppCur, explainMode.liveSessionRef) EXCEPT
                       !.explainMode.liveSessionRef = 0,
                       !.explainMode.isListening = FALSE])
     ELSE /\ Len(sessions) < MaxSessions
          /\ AppCommit([AppCur EXCEPT
                !.explainMode.isListening = TRUE,
                !.sessions = Append(@, [pc |-> "connecting", closure |-> Closure(AppCur),
                                        heard |-> "", live |-> TRUE])])

\* a session that is over keeps nothing
sessionOver(s, k) ==
  LET s1 == [s EXCEPT !.sessions[k] = [pc |-> "closed", closure |-> NoClosure,
                                       heard |-> "", live |-> FALSE]]
  IN  IF s.sessions[k].live THEN [s1 EXCEPT !.explainMode.isListening = FALSE]
      ELSE s1

\* getUserMedia and live.connect settle: the session is open and the ref
\* holds it, or the catch of toggleListen runs
SessionSettles(k) ==
  /\ sessions[k].pc = "connecting"
  /\ \E ok \in BOOLEAN :
       IF ~ok THEN AppCommit(sessionOver(AppCur, k))
       ELSE AppCommit([AppCur EXCEPT
              !.sessions[k].pc = "open",
              !.explainMode.liveSessionRef = IF sessions[k].live THEN k ELSE @])

\* onmessage with an input transcription
Transcribed(k, T) ==
  /\ sessions[k].pc = "open"
  /\ sessions[k].heard # T
  /\ AppCommit([AppCur EXCEPT
        !.sessions[k].heard = T,
        !.explainMode.input = IF sessions[k].live THEN T ELSE @])

\* onmessage with turnComplete: handleSend() of the render the session was
\* opened from
TurnComplete(k) ==
  /\ sessions[k].pc = "open"
  /\ ChatRoom
  /\ AppCommit(handleSend([AppCur EXCEPT !.sessions[k].heard = ""], "",
                          sessions[k].closure, sessions[k].live))

\* onclose / onerror: the server ends the session, or close() has been called
SessionCloses(k) ==
  /\ sessions[k].pc \in {"open", "closing"}
  /\ AppCommit(sessionOver(AppCur, k))

\* ---------------------------------------------------------- VideoNarrado
setStatus(s, k, v) ==
  IF s.speaks[k].live THEN [s EXCEPT !.videoNarrado.status = v] ELSE s

\* startProcess up to its first await
startProcess ==
  /\ state.mode = "VIDEO" /\ videoNarrado.status = "IDLE"
  /\ Len(speaks) < MaxSpeaks
  /\ AppCommit([AppCur EXCEPT
        !.videoNarrado.status = "CHECKING_KEY",
        !.speaks = Append(@, Speak("video", "key", videoNarrado.audioContextRef, 0))])

\* the end of generateMagic: the audio context of the screen is created if
\* it has none, the speech is decoded, the video is ready
videoReady(s, k, st) ==
  LET mine == IF s.speaks[k].live THEN s.videoNarrado.audioContextRef ELSE s.speaks[k].ctx
      s1 == IF mine = 0 THEN newContext(s, "video", st) ELSE s
      c == IF mine = 0 THEN Len(s1.contexts) ELSE mine
      s2 == speakReturns(s1, k)
  IN  IF s.speaks[k].live
      THEN [s2 EXCEPT !.videoNarrado.audioContextRef = c,
                      !.videoNarrado.audioBuffer = TRUE,
                      !.videoNarrado.status = "READY"]
      ELSE s2

\* a step of startProcess and generateMagic settles: the key check, the
\* prompt, and the video with the speech
VideoSettles(k) ==
  /\ speaks[k].path = "video" /\ speaks[k].pc \in {"key", "prompt", "video"}
  /\ \E ok \in BOOLEAN, st \in ContextStates :
       LET s == AppCur
       IN  IF ~ok
           THEN AppCommit(speakReturns(setStatus(s, k, "ERROR"), k))
           ELSE IF speaks[k].pc = "key"
           THEN AppCommit([setStatus(s, k, "PROMPTING") EXCEPT !.speaks[k].pc = "prompt"])
           ELSE IF speaks[k].pc = "prompt"
           THEN AppCommit([setStatus(s, k, "GENERATING") EXCEPT !.speaks[k].pc = "video"])
           ELSE AppCommit(videoReady(s, k, st))

\* handleTogglePlay
handleTogglePlay ==
  /\ state.mode = "VIDEO" /\ videoNarrado.status = "READY"
  /\ IF videoNarrado.isPlaying
     THEN AppCommit([stopSource(AppCur, videoNarrado.audioSourceRef)
                       EXCEPT !.videoNarrado.isPlaying = FALSE])
     ELSE /\ videoNarrado.audioContextRef # 0 /\ videoNarrado.audioBuffer
          /\ Len(started) < MaxSources
          /\ AppCommit([startSource(AppCur, "video", videoNarrado.audioContextRef, TRUE)
                          EXCEPT !.videoNarrado.audioSourceRef = Len(started) + 1,
                                 !.videoNarrado.isPlaying = TRUE])

\* the button under the video: setStatus('IDLE')
VideoAgain ==
  /\ state.mode = "VIDEO" /\ videoNarrado.status = "READY"
  /\ AppCommit([AppCur EXCEPT !.videoNarrado.status = "IDLE"])

\* ------------------------------------------- what the handlers wait for
\* a handler that awaited ctx.resume() goes on to its next await
afterResume(s, k) ==
  LET j == s.speaks[k]
  IN  CASE j.path = "unlock" ->
             speakReturns(startSource(s, "unlock", j.ctx, TRUE), k)
        [] j.path = "comic" ->
             [(IF j.live THEN [s EXCEPT !.comicMode.speakingIdx = j.idx] ELSE s)
                EXCEPT !.speaks[k].pc = "speech"]
        [] OTHER -> [s EXCEPT !.speaks[k].pc = "speech"]

\* the catch of a handleSpeak: stopAudio()
speakFailed(s, k) ==
  LET j == s.speaks[k]
      s1 == speakReturns(s, k)
  IN  IF ~j.live THEN s1
      ELSE IF j.path = "comic" THEN comicStopAudio(s1)
      ELSE IF j.path = "explain" THEN explainStopAudio(s1)
      ELSE s1

\* every resume() promise pending on context c settles in the same task
RECURSIVE resumeAll(_, _, _, _)
resumeAll(s, c, k, ok) ==
  IF k > Len(s.speaks) THEN s
  ELSE IF s.speaks[k].pc # "resume" \/ s.speaks[k].ctx # c THEN resumeAll(s, c, k + 1, ok)
  ELSE resumeAll(IF ok THEN afterResume(s, k) ELSE speakFailed(s, k), c, k + 1, ok)

ContextResumes(c) ==
  /\ \E k \in DOMAIN speaks : speaks[k].pc = "resume" /\ speaks[k].ctx = c
  /\ \E ok \in BOOLEAN :
       AppCommit(resumeAll([AppCur EXCEPT !.contexts[c].state = IF ok THEN "running" ELSE @],
                           c, 1, ok))

\* the rest of a handleSpeak once generateSpeech has answered: decode, the
\* source, its ref, source.start()
spoken(s, k) ==
  LET j == s.speaks[k]
      id == Len(s.started) + 1
      s1 == speakReturns(startSource(s, j.path, j.ctx, j.live), k)
  IN  IF ~j.live THEN s1
      ELSE IF j.path = "comic" THEN [s1 EXCEPT !.comicMode.currentSourceRef = id]
      ELSE [s1 EXCEPT !.explainMode.activeSourcesRef = Append(@, id)]

\* generateSpeech settles for a handleSpeak: with audio, or with nothing that
\* can be decoded, or with a failure
SpeakSettles(k) ==
  /\ speaks[k].pc = "speech"
  /\ \E ok \in BOOLEAN :
       AppCommit(IF ok THEN spoken(AppCur, k) ELSE speakFailed(AppCur, k))

\* a source has played to its end or has been stopped: its onended runs
SourceEnds(i) ==
  /\ ~started[i].ended
  /\ started[i].stopped \/ contexts[started[i].ctx].state = "running"
  /\ LET s == [AppCur EXCEPT !.started[i].ended = TRUE]
         src == started[i]
     IN  IF ~src.live \/ src.path = "unlock" THEN AppCommit(s)
         ELSE IF src.path = "comic" THEN AppCommit([s EXCEPT !.comicMode.speakingIdx = -1])
         ELSE IF src.path = "explain" THEN AppCommit([s EXCEPT !.explainMode.speakingIdx = -1])
         ELSE AppCommit([s EXCEPT !.videoNarrado.isPlaying = FALSE])

AppInit == ReaderIdle /\ DecodeIdle /\ AppIdle

\* the files that give a document to play
Stories == {file \in Files : file.kind = "story" /\ file.readable}

\* the session of a user who uploads stories and plays them on the screens
AppNext ==
  \/ NavigateHome
  \/ LoadAnother
  \/ \E m \in Modes : SelectMode(m)
  \/ Back
  \/ ToggleTerms
  \/ \E file \in Stories : handleFileChange(file)
  \/ \E k \in DOMAIN uploads : ReaderSettles(k)
  \/ \E k \in DOMAIN uploads : ExtractSettles(k)
  \/ FontChosen
  \/ handleFinalStep
  \/ OpenSettings
  \/ ComicSettles
  \/ \E idx \in 0..1 : comicHandleSpeak(idx)
  \/ InitSettles
  \/ \E idx \in {0, 999} : SpeakClicked(idx)
  \/ startProcess
  \/ \E k \in DOMAIN speaks : VideoSettles(k)
  \/ handleTogglePlay
  \/ VideoAgain
  \/ \E c \in DOMAIN contexts : ContextResumes(c)
  \/ \E k \in DOMAIN speaks : SpeakSettles(k)
  \/ \E i \in DOMAIN started : SourceEnds(i)

AppSpec == AppInit /\ [][AppNext]_vars

\* the explain screen of a user who uploads a story, opens the screen, types,
\* talks and listens
ChatNext ==
  \/ ToggleTerms
  \/ \E file \in Stories : handleFileChange(file)
  \/ \E k \in DOMAIN uploads : ReaderSettles(k)
  \/ \E k \in DOMAIN uploads : ExtractSettles(k)
  \/ SelectMode("EXPLAIN")
  \/ InitSettles
  \/ \E v \in Inputs : TypeInput(v)
  \/ \E val \in {""} \cup Questions : Send(val)
  \/ \E k \in DOMAIN chats : ChatSettles(k)
  \/ toggleListen
  \/ \E k \in DOMAIN sessions : SessionSettles(k)
  \/ \E k \in DOMAIN sessions, T \in Utterances : Transcribed(k, T)
  \/ \E k \in DOMAIN sessions : TurnComplete(k)
  \/ \E k \in DOMAIN sessions : SessionCloses(k)
  \/ \E c \in DOMAIN contexts : ContextResumes(c)
  \/ \E k \in DOMAIN speaks : SpeakSettles(k)
  \/ \E i \in DOMAIN started : SourceEnds(i)

ChatSpec == AppInit /\ [][ChatNext]_vars

\* the upload screen and the navigation alone
UploadNext ==
  \/ NavigateHome
  \/ LoadAnother
  \/ \E m \in Modes : SelectMode(m)
  \/ Back
  \/ ToggleTerms
  \/ \E file \in Files : handleFileChange(file)
  \/ \E k \in DOMAIN uploads : ReaderSettles(k)
  \/ \E k \in DOMAIN uploads : ExtractSettles(k)

UploadSpec == AppInit /\ [][UploadNext]_vars

\* ------------------------------------------------------------ the claims
\* chunk indices of the sources started, in start order
ScheduledChunks == [i \in DOMAIN sources |-> sources[i].chunk]

\* C1: between two resets of the fetch cursor the sources are started in
\* strictly increasing chunk order: a buffer for chunk j is never scheduled
\* before a buffer for chunk i when i < j.
C1_IndexOrder ==
  \A i, j \in DOMAIN sources :
    (i < j /\ sources[i].cycle = sources[j].cycle)
      => sources[i].chunk < sources[j].chunk

\* every worker has returned, no request is in flight, nothing is queued and
\* no run is waiting for the device
Settled ==
  /\ runs # <<>>
  /\ \A r \in DOMAIN runs : runs[r].wpc \in {"none", "done"} /\ runs[r].cpc # "resume"
  /\ audioBufferQueueRef = <<>>

ChunkIndices == 0..(Len(chunksRef) - 1)

\* chunks of the sources started for the current pass over the document
ScheduledThisCycle == {sources[i].chunk : i \in {k \in DOMAIN sources : sources[k].cycle = cycle}}

\* C2: when the synthesis of a chunk fails and narration is not stopped, the
\* abort flag stays clear, the session stays in the reading state, the failed
\* chunk is never scheduled, and once every request has returned and the queue
\* has drained exactly the chunks that did not fail have been scheduled.
C2_FailedChunkSkipped ==
  (stops = 0 /\ failed # {}) =>
    /\ ~isAbortedRef
    /\ isReading
    /\ ScheduledThisCycle \cap failed = {}
    /\ Settled => ScheduledThisCycle = ChunkIndices \ failed

\* failure on chunk 2 of 3: exactly chunks 1 and 3 are scheduled
C2_Witness ==
  /\ stops = 0
  /\ Len(chunksRef) = 3
  /\ failed = {1}
  /\ Settled
  /\ ScheduledChunks = <<0, 2>>

\* C3: when the play button stops narration the abort flag is set, every
\* source started so far is stopped, the active-source list is empty, the
\* state is idle, and no source is started until the button is pressed again.
C3_StopHalts ==
  [][ lastUser' = "stop" =>
        /\ isAbortedRef'
        /\ activeSourcesRef' = <<>>
        /\ ~isReading' /\ ~isBuffering'
        /\ \A i \in DOMAIN sources' : sources'[i].stopped
        /\ Len(sources') = Len(sources) ]_vars

\* narration was stopped with sources started and its loops have since woken
C3_Witness ==
  /\ lastUser = "stop"
  /\ Len(sources) >= 2
  /\ \A r \in DOMAIN runs : runs[r].cpc = "done" /\ runs[r].wpc = "done"
  /\ \E r \in DOMAIN runs : runs[r].cpc = "done"

\* C4: a narration that is never stopped and whose requests all return goes
\* back to idle with the fetch cursor at 0.
C4_EventuallyIdle ==
  (isReading /\ stops = 0) ~> ((~isReading /\ prefetchIndexRef = 0) \/ stops > 0)

\* least chunk index not among the sources started before the last stop
FirstUnscheduled ==
  LET before == {sources[i].chunk : i \in 1..stopMark}
  IN  CHOOSE k \in 0..Len(chunksRef) :
        k \notin before /\ \A j \in 0..(k - 1) : j \in before

\* <<a, a + 1, ..., b>>
Interval(a, b) == [i \in 1..(b - a + 1) |-> a + i - 1]

\* C5: after one stop and a new play, once the resumed run has settled it has
\* scheduled exactly the chunks r..N-1 in order, where r is 0 or the first
\* chunk not scheduled before the stop.
C5_ResumeLosesNothing ==
  (stops = 1 /\ mounted /\ lastUser = "play" /\ failed = {} /\ Settled) =>
    LET resumed == SubSeq(ScheduledChunks, stopMark + 1, Len(sources))
        N == Len(chunksRef)
    IN  \/ resumed = Interval(0, N - 1)
        \/ resumed = Interval(FirstUnscheduled, N - 1)

\* C6: a change of the playback rate leaves the sources already started and
\* the cursor as they are; a source takes the rate in force when it is
\* started and its planned duration is the buffer's duration over that rate.
C6_RateAtScheduleTime ==
  [][ /\ \A i \in DOMAIN sources :
           /\ i \in DOMAIN sources'
           /\ sources'[i].rate = sources[i].rate
           /\ sources'[i].dur = sources[i].dur
           /\ sources'[i].start = sources[i].start
      /\ playbackRateRef' # playbackRateRef =>
           Len(sources') = Len(sources) /\ nextStartTimeRef' = nextStartTimeRef
      /\ \A i \in DOMAIN sources' \ DOMAIN sources :
           /\ sources'[i].rate = playbackRateRef
           /\ sources'[i].dur = (BufferDuration * 10) \div playbackRateRef ]_vars

\* a source started before the slider moved and one started after it
C6_Witness ==
  /\ rateChanges = 1
  /\ \E i, j \in DOMAIN sources : i < j /\ sources[i].rate # sources[j].rate

\* C7: for an empty or whitespace-only text the play button starts nothing:
\* no run, no speech request, no source, the state stays idle and the reader
\* shows the "no text" message.
C7_BlankTextStartsNothing ==
  (\A i \in DOMAIN text : text[i] \in {" ", "\n"}) =>
    /\ runs = <<>>
    /\ requests = <<>>
    /\ sources = <<>>
    /\ ~isReading /\ ~isBuffering
    /\ ShowsNoText(text)

\* the play button has been pressed on a whitespace-only text
C7_Witness ==
  /\ text # <<>>
  /\ \A i \in DOMAIN text : text[i] \in {" ", "\n"}
  /\ lastUser = "play"

\* C8: the queue of decoded buffers never holds more than the prefetch depth
\* and a speech request is issued only when the queue has spare capacity.
C8_QueueBounded ==
  /\ Len(audioBufferQueueRef) <= PrefetchDepth
  /\ \A i \in DOMAIN requests : requests[i].spare

\* C9: the response to a request that was in flight when stopAudio ran is
\* never put on the queue and never scheduled.
C9_StaleResponseDiscarded ==
  /\ \A i \in DOMAIN audioBufferQueueRef : ~audioBufferQueueRef[i].stale
  /\ \A i \in DOMAIN sources : ~sources[i].stale

\* C10: once the reader is torn down every source it has started is stopped,
\* whatever was pending at teardown.
C10_SilentAfterTeardown ==
  ~mounted => \A i \in DOMAIN sources : sources[i].stopped

\* C11: decodeAudioData applied to a view that is a sub-slice of a larger
\* allocation gives the same frame count and the same samples (or the same
\* failure) as applied to the same bytes copied into a zero-offset buffer.
C11_SubSliceDecodesAlike ==
  (viewDecoded # <<>> /\ copyDecoded # <<>>) => viewDecoded = copyDecoded

\* a frame decoded from a view that starts inside its allocation, whose
\* allocation starts with other bytes than the view
C11_Witness ==
  /\ viewDecoded # <<>> /\ copyDecoded # <<>>
  /\ data.byteOffset > 0
  /\ Len(data.buffer) = MaxAlloc
  /\ ~viewDecoded[1].threw
  /\ viewDecoded[1].frameCount = 1
  /\ viewDecoded[1].channelData # <<0>>
  /\ data.buffer[1] # data.buffer[data.byteOffset + 1]

\* C12: over the whole session at most one audio output context is created,
\* the one getSharedAudioContext keeps, and every source started on any
\* screen plays through it.
C12_SingleAudioContext ==
  /\ Len(contexts) <= 1
  /\ \A i \in DOMAIN started : started[i].ctx = globalAudioContext

\* C13: on every playback path no source is started while its output device
\* is suspended.
C13_NoStartWhileSuspended ==
  /\ \A i \in DOMAIN started : started[i].device = "running"
  /\ \A i \in DOMAIN sources : sources[i].device = "running"

\* C14: every failed upload (the file cannot be read, the extraction request
\* fails, the extracted text is empty or too short) leaves the upload screen
\* not uploading and with an error message, so the input is enabled again
C14_FailedUploadIsIdle ==
  \A k \in DOMAIN uploads :
    (k = Len(uploads) /\ uploads[k].phase \in {"failed", "unread"}
       /\ state.mode = "UPLOAD")
    => (~uploadModule.isUploading /\ uploadModule.error # "null")

\* C15: an upload the provider declined as unsafe ends in an error whose
\* message is not the one of overload and network failures, its text is not
\* accepted as the document, and no second request is made for it
C15_UnsafeDeclineIsDistinct ==
  \A k \in DOMAIN uploads :
    uploads[k].declined =>
      /\ uploads[k].phase = "failed"
      /\ uploads[k].requests = 1
      /\ (k = Len(uploads) /\ state.mode = "UPLOAD")
           => uploadModule.error \notin {"null", "errorOverload"}

\* C16: the document text and file name change only when an upload completes
\* (replaced by that upload's text and name) or when home / load another
\* clears the text; entering a mode and going back leave both as they were
C16_DocumentTextFrame ==
  [][/\ (state'.text # state.text
          \/ state'.originalFileName # state.originalFileName)
        => \/ \E k \in DOMAIN uploads :
                /\ uploads[k].phase = "extracting" /\ uploads'[k].phase = "done"
                /\ state'.text = uploads'[k].extracted
                /\ state'.originalFileName = uploads[k].file.name
                /\ state'.mode = "SELECTION"
           \/ /\ state'.text = <<>> /\ state'.mode = "UPLOAD"
              /\ state'.originalFileName = state.originalFileName
              /\ lastNav' \in {"home", "another"}
     /\ ((state.mode = "SELECTION" /\ state'.mode \in Modes)
         \/ (state.mode \in Modes /\ state'.mode = "SELECTION"))
        => (state'.text = state.text
            /\ state'.originalFileName = state.originalFileName)]_vars

\* a document is still there after the user entered a mode and came back
C16_Witness ==
  /\ lastNav = "back" /\ state.mode = "SELECTION"
  /\ state.text # <<>> /\ state.originalFileName = "story.pdf"
  /\ \E k \in DOMAIN uploads : uploads[k].phase = "done"

\* the message list before is a prefix of the message list after
IsPrefix(a, b) == Len(a) <= Len(b) /\ SubSeq(b, 1, Len(a)) = a

\* C17: while the explain screen stays on display the chat log only grows
\* at its end: in every step the previous messages are a prefix of the new
\* ones, also when the initialisation finishes after the user has sent
C17_ChatAppendOnly ==
  [][(state.mode = "EXPLAIN" /\ state'.mode = "EXPLAIN")
       => IsPrefix(explainMode.messages, explainMode'.messages)]_vars

\* C18: when a voice session has delivered a transcription T and then signals
\* turn complete while no answer is awaited, that step appends the user
\* message T to the chat log and issues a chat request for T
C18_VoiceIsTyped ==
  [][\A k \in DOMAIN sessions :
       (/\ sessions[k].pc = "open" /\ sessions[k].live
        /\ sessions[k].heard \in Utterances
        /\ sessions'[k].pc = "open" /\ sessions'[k].heard = ""
        /\ ~explainMode.isTyping)
       => /\ explainMode'.messages =
               Append(explainMode.messages,
                      [role |-> "user", text |-> sessions[k].heard])
          /\ Len(chats') = Len(chats) + 1
          /\ chats'[Len(chats')].msg = sessions[k].heard]_vars

\* C19: stopping narration discards the queued work: right after stopAudio
\* the queue of decoded buffers is empty, and no buffer that was in the queue
\* when narration was stopped is played afterwards
C19_StopDiscardsQueue ==
  [][/\ stops' > stops => audioBufferQueueRef' = <<>>
     /\ \A i \in DOMAIN sources' : ~sources'[i].kept]_vars

\* the handlePlayAudio invocations that get past the resume in this step
RunsStarting ==
  {r \in DOMAIN runs' :
     /\ r \notin DOMAIN runs \/ runs[r].cpc = "resume"
     /\ runs'[r].cpc # "resume"
     /\ ctxState' = "running"}

\* no chunk index is requested twice between two resets of the fetch cursor
NoChunkRequestedTwice ==
  \A i, j \in DOMAIN requests :
    (i < j /\ requests[i].cycle = requests[j].cycle)
    => requests[i].chunk # requests[j].chunk

\* C20: a play that finds buffers of a previous run in the queue starts
\* sources for the oldest of them and keeps the others queued, and between
\* two resets of the fetch cursor no chunk index is requested twice
C20_ReplayReusesQueue ==
  [][/\ (RunsStarting # {} /\ audioBufferQueueRef # <<>>)
        => LET n == Len(sources') - Len(sources)
           IN  /\ n >= 1 /\ n <= Len(audioBufferQueueRef)
               /\ \A i \in 1..n :
                    /\ sources'[Len(sources) + i].chunk = audioBufferQueueRef[i].chunk
                    /\ sources'[Len(sources) + i].cycle = audioBufferQueueRef[i].cycle
               /\ audioBufferQueueRef' =
                    SubSeq(audioBufferQueueRef, n + 1, Len(audioBufferQueueRef))
     /\ NoChunkRequestedTwice']_vars

\* narration was stopped with two buffers queued and started again: the
\* older of the two has been played, the other is still queued, and every
\* chunk has been requested once
C20_Witness ==
  /\ stops = 1 /\ lastUser = "play" /\ Len(runs) = 2
  /\ Len(sources) > stopMark /\ sources[stopMark + 1].kept
  /\ audioBufferQueueRef # <<>> /\ audioBufferQueueRef[1].kept
  /\ Len(requests) = Len(chunksRef)

\* C21: a source is started at the later of the planned cursor and the device
\* clock and the cursor then moves to that start plus duration over rate, so
\* a source started after another, with no stop since mount, starts no earlier
\* than the end of the one before it (stated while the clock reading is exact)
C21_NoOverlap ==
  [][currentTime < MaxClock =>
      /\ \A i \in DOMAIN sources' \ DOMAIN sources :
           /\ sources'[i].start >= currentTime
           /\ sources'[i].dur = (BufferDuration * 10) \div sources'[i].rate
           /\ i = Len(sources) + 1
                => sources'[i].start \in {Max(nextStartTimeRef, currentTime), currentTime}
           /\ (i > 1 /\ stops' = 0)
                => sources'[i].start >= sources'[i - 1].start + sources'[i - 1].dur
      /\ Len(sources') > Len(sources)
           => nextStartTimeRef' = sources'[Len(sources')].start
                                    + sources'[Len(sources')].dur]_vars

\* every chunk has been requested, no request is in flight and the queue is empty
AllFetchedAndDrained ==
  /\ prefetchIndexRef = Len(chunksRef)
  /\ \A r \in DOMAIN runs : runs[r].wpc \in {"none", "done"}
  /\ audioBufferQueueRef = <<>>

\* C22: the reader does not stay in the buffering state once every chunk has
\* been fetched or skipped and the queue has drained: from such a state of a
\* narration that is not stopped, buffering is eventually no longer reported
C22_BufferingEnds ==
  (isReading /\ isBuffering /\ stops = 0 /\ AllFetchedAndDrained)
    ~> (~isBuffering \/ stops > 0)

\* the fetch worker loops and the consumer loops that have not returned
ActiveWorkers == {r \in DOMAIN runs : runs[r].wpc \in {"fetch", "poll"}}
ActiveConsumers == {r \in DOMAIN runs : runs[r].cpc = "wait"}

\* C23: whatever the sequence of play and stop requests, at most one fetch
\* worker loop and at most one consumer loop are active at any time; a loop
\* that will return at its next step because the abort flag is set is not
\* counted
C23_OneLoopEach ==
  ~isAbortedRef =>
    /\ Cardinality(ActiveWorkers) <= 1
    /\ Cardinality(ActiveConsumers) <= 1

\* the sources of a speak button of the screen on display that have been
\* started and have neither been stopped nor played to their end
SpeakingSources(path) ==
  {i \in DOMAIN started :
     /\ started[i].path = path /\ started[i].live
     /\ ~started[i].stopped /\ ~started[i].ended}

\* C24: in comic mode and in explain mode at most one speech source plays at
\* a time, whatever the speak clicks and the order in which the speech
\* requests complete
C24_OneSpeechSource ==
  /\ Cardinality(SpeakingSources("comic")) <= 1
  /\ Cardinality(SpeakingSources("explain")) <= 1

\* C25: ERROR is not absorbing on the video screen: while the screen shows
\* status ERROR one of its controls takes the user back to IDLE or starts
\* the generation again
C25_ErrorCanRetry ==
  (state.mode = "VIDEO" /\ videoNarrado.status = "ERROR")
    => ENABLED (startProcess \/ VideoAgain)

\* C26: in explain mode at most one chat request is in flight at a time,
\* whatever triggers handleSend (the send button, Enter, a suggested
\* question, the turn-complete callback of a voice session)
C26_OneChatInFlight ==
  Cardinality(PendingChats) <= 1

\* s occurs in t at or after position i: the least position after that
\* occurrence, 0 when there is none
RECURSIVE FindFrom(_, _, _)
FindFrom(s, t, i) ==
  IF i + Len(s) - 1 > Len(t) THEN 0
  ELSE IF SubSeq(t, i, i + Len(s) - 1) = s THEN i + Len(s)
  ELSE FindFrom(s, t, i + 1)

\* the chunks occur in t one after the other from position i on
RECURSIVE InSourceOrder(_, _, _)
InSourceOrder(cs, t, i) ==
  \/ cs = <<>>
  \/ LET e == FindFrom(Head(cs), t, i)
     IN  e # 0 /\ InSourceOrder(Tail(cs), t, e)

\* C27: for every text the chunks are trimmed substrings of the text in
\* source order, each of more than MinChunkLen characters, none holding a
\* terminator before its end; three sentences give three chunks
C27_ChunksWellFormed ==
  mounted =>
    /\ InSourceOrder(chunksRef, text, 1)
    /\ \A i \in DOMAIN chunksRef :
         /\ Len(chunksRef[i]) > MinChunkLen
         /\ chunksRef[i] = Trim(chunksRef[i])
    /\ text = Doc(3) => Len(chunksRef) = 3

\* C28: on the selection screen and on the four mode screens the document
\* text has a trimmed length of at least MinTextLen
C28_DocumentPresent ==
  state.mode \in {"SELECTION"} \cup Modes => Len(Trim(state.text)) >= MinTextLen

\* a text of three characters was refused, then a text of exactly MinTextLen
\* characters once trimmed was accepted, a mode entered and left again
C28_Witness ==
  /\ state.mode = "SELECTION" /\ lastNav = "back"
  /\ Len(Trim(state.text)) = MinTextLen /\ Len(state.text) > MinTextLen
  /\ \E k \in DOMAIN uploads :
       uploads[k].phase = "failed" /\ Len(uploads[k].extracted) = 3

\* C29: a file is read and a text-extraction request issued only for a file
\* chosen while the legal terms are accepted; while they are not, no step
\* starts an upload, sets isUploading or the error, or leaves the upload
\* screen
C29_TermsBeforeUpload ==
  [][/\ Len(uploads') > Len(uploads) => uploadModule.acceptedTerms
     /\ (state.mode = "UPLOAD" /\ ~uploadModule.acceptedTerms /\ ~uploadModule.isUploading)
          => /\ ~uploadModule'.isUploading
             /\ uploadModule'.error = uploadModule.error
             /\ state'.mode = "UPLOAD"
             /\ uploads' = uploads]_vars

\* the terms were accepted, a file was chosen and its upload failed, and the
\* terms have been withdrawn: the input is idle and no further file is taken
C29_Witness ==
  /\ state.mode = "UPLOAD" /\ ~uploadModule.acceptedTerms /\ ~uploadModule.isUploading
  /\ Len(uploads) = 1 /\ uploads[1].phase = "failed" /\ uploads[1].requests = 1
  /\ uploadModule.error # "null"

\* the chunks requested, and the chunks scheduled, in cycle c, in order
RequestedIn(c) ==
  LET ks == {i \in DOMAIN requests : requests[i].cycle = c}
      F[i \in 0..Len(requests)] ==
        IF i = 0 THEN <<>>
        ELSE IF i \in ks THEN Append(F[i - 1], requests[i].chunk) ELSE F[i - 1]
  IN  F[Len(requests)]

ScheduledIn(c) ==
  LET ks == {i \in DOMAIN sources : sources[i].cycle = c}
      F[i \in 0..Len(sources)] ==
        IF i = 0 THEN <<>>
        ELSE IF i \in ks THEN Append(F[i - 1], sources[i].chunk) ELSE F[i - 1]
  IN  F[Len(sources)]

\* C30: after a narration that completed naturally (never stopped, no chunk
\* failed), a second play requests and schedules the chunks again in order
\* from chunk 0, and all N of them once it has completed too
C30_ReplayFromStart ==
  (stops = 0 /\ failed = {} /\ Len(runs) = 2 /\ runs[1].cpc = "done")
    => /\ RequestedIn(0) = Interval(0, Len(chunksRef) - 1)
       /\ ScheduledIn(0) = Interval(0, Len(chunksRef) - 1)
       /\ \E n \in 1..Len(chunksRef) : RequestedIn(1) = Interval(0, n - 1)
       /\ \E n \in 0..Len(chunksRef) : ScheduledIn(1) = Interval(0, n - 1)
       /\ runs[2].cpc = "done" => /\ RequestedIn(1) = Interval(0, Len(chunksRef) - 1)
                                  /\ ScheduledIn(1) = Interval(0, Len(chunksRef) - 1)
                                  /\ prefetchIndexRef = 0 /\ ~isReading

\* a document of three sentences has been narrated to its end twice
C30_Witness ==
  /\ stops = 0 /\ failed = {} /\ Len(runs) = 2
  /\ runs[1].cpc = "done" /\ runs[2].cpc = "done"
  /\ Len(chunksRef) = 3
  /\ ScheduledChunks = <<0, 1, 2, 0, 1, 2>>
  /\ Len(requests) = 6


====
